---- MODULE Spec2Model ----
(***************************************************************************)
(* A model of the GuitarChat retrieval-augmented answering pipeline:       *)
(*   - etl/videos.py : chaptered-document building and the parallel        *)
(*                     extraction stage (fan-out with retries, fan-in)     *)
(*   - etl/shared.py : flatten, chunk_into, add_to_document_db             *)
(*   - app.py        : chunk splitting, index build + persist, qanda       *)
(*                                                                         *)
(* Each component has a specification of its own (SpecExtract, SpecOrch,   *)
(* SpecRetry, SpecChunk, SpecDb, SpecSplit, SpecQA); the variables of the  *)
(* other components are held at their idle values.                         *)
(*                                                                         *)
(* Text is a sequence of one-character strings.  Times are in units of ten *)
(* seconds, so that the 1e10 s sentinel of add_transcript is 10^9 units    *)
(* and fits the model checker's integers; only the order of times matters. *)
(***************************************************************************)
EXTENDS Integers, Sequences, FiniteSets, TLC

VARIABLES
    \* ---- extract_subtitles (etl/videos.py), one attempt on one video
    epc,          \* position inside extract_subtitles
    transcript,   \* what the transcript service holds for the video
    svcChapters,  \* what the chapter-metadata service holds for the video
    subtitles,    \* local: subtitles
    chapters,     \* local: chapters
    assigned,     \* per chapter, the indices of the segments its comprehension selected
    documents,    \* the value extract_subtitles returns
    \* ---- main (etl/videos.py): extract_subtitles.map(...) consumed by flatten
    opc,          \* position of the stage: "mapping", "flattened" or "raised"
    ostat,        \* per item: "queued", "running", "backoff" or "done"
    attempts,     \* per item: how many times the function was started
    failures,     \* per item: how many of its attempts raised
    result,       \* per item: what map holds for it (NoValue until it completes)
    yielded,      \* the items whose result the map generator has yielded, in yield order
    flat,         \* the list flatten has built so far
    outOfOrder,   \* some item completed while an earlier-submitted one had not
    \* ---- add_to_document_db (etl/shared.py)
    dpc,            \* "loop", "returned" or "raised"
    documents_json, \* the argument
    consumed,       \* how many documents the for loop has taken
    requesting,     \* local: requesting
    writes,         \* every collection.bulk_write call: its batch and whether it succeeded
    \* ---- prep_documents_for_vector_storage (app.py)
    spc,          \* "loop" or "returned"
    sdocs,        \* the argument: documents
    sdone,        \* how many documents the for loop has taken
    texts,        \* local: texts
    metadatas,    \* local: metadatas
    origin,       \* per chunk, the index of the document whose split produced it
    \* ---- the shared volume (app.py: VECTOR_DIR), files of vecstore.INDEX_NAME
    faissFile,    \* <INDEX_NAME>.faiss: the vectors
    pklFile,      \* <INDEX_NAME>.pkl: the chunks (text and metadata) behind the vectors
    \* ---- create_vector_index (app.py)
    bpc,          \* "idle", "prepared", "built", "faiss_written", "saved" or "failed"
    bgen,         \* how many index builds were started
    btexts,       \* local: texts
    bmetas,       \* local: metadatas
    memIndex,     \* local: vector_index
    bfail,        \* why the running build failed ("none" while it has not)
    diskBefore,   \* the two files as they were when the running build started
    \* ---- qanda (app.py)
    qpc,          \* "start", "loaded", "searched", "done" or "error"
    qindex,       \* local: vector_index, as loaded
    sas,          \* local: sources_and_scores
    sources,      \* local: sources
    llmCalls,     \* every call of the chain: its input documents
    output_text,  \* result["output_text"]
    answer,       \* the value qanda returns
    qfail,        \* why the query failed ("none" while it has not)
    \* ---- one extract_subtitles call under modal.Retries, with time (etl/videos.py)
    rpc,          \* "running", "backoff", "returned" or "dropped"
    rclock,       \* the time, in seconds
    rattempts,    \* how many times the function was started
    rstartedAt,   \* when the running (or last) attempt started
    rfailedAt,    \* when the last failed attempt raised
    rdelays,      \* the delays set before the retries so far, in seconds
    \* ---- main (etl/videos.py): chunk_into and the parallel add_to_document_db calls
    cpc,          \* "start", "writing", "finished" or "raised"
    flatDocs,     \* local: documents (the flattened list)
    pieces,       \* local: chunked_documents
    wstat,        \* per add_to_document_db call: "pending", "done" or "raised"
    submitted     \* per document, in how many bulk writes it was sent to the store

evars == <<epc, transcript, svcChapters, subtitles, chapters, assigned, documents>>
ovars == <<opc, ostat, attempts, failures, result, yielded, flat, outOfOrder>>

dvars == <<dpc, documents_json, consumed, requesting, writes>>
svars == <<spc, sdocs, sdone, texts, metadatas, origin>>

fvars == <<faissFile, pklFile>>
bvars == <<bpc, bgen, btexts, bmetas, memIndex, bfail, diskBefore>>
qvars == <<qpc, qindex, sas, sources, llmCalls, output_text, answer, qfail>>

rvars == <<rpc, rclock, rattempts, rstartedAt, rfailedAt, rdelays>>

cvars == <<cpc, flatDocs, pieces, wstat, submitted>>

vars == <<evars, ovars, dvars, svars, fvars, bvars, qvars, rvars, cvars>>

\* what each component leaves alone: the variables of the others
notE == <<ovars, dvars, svars, fvars, bvars, qvars, rvars, cvars>>
notO == <<evars, dvars, svars, fvars, bvars, qvars, rvars, cvars>>
notD == <<evars, ovars, svars, fvars, bvars, qvars, rvars, cvars>>
notS == <<evars, ovars, dvars, fvars, bvars, qvars, rvars, cvars>>
notQA == <<evars, ovars, dvars, svars, rvars, cvars>>
notR == <<evars, ovars, dvars, svars, fvars, bvars, qvars, cvars>>
notC == <<evars, ovars, dvars, svars, fvars, bvars, qvars, rvars>>

(***************************************************************************)
(* Bounds of the model.                                                    *)
(***************************************************************************)
MaxChapters == 2
MaxSegs == 2
MaxTime == 2
NumItems == 3
MaxDocsPerItem == 2
MaxExtraDocs == 1
MaxSplitDocs == 2
MaxExtraTokens == 1
MaxBuilds == 2
MaxChunks == 4
MaxClock == 36
MaxExtraFlat == 1

(***************************************************************************)
(* Sequence helpers.                                                       *)
(***************************************************************************)
SeqsUpTo(S, n) == UNION {[1..k -> S] : k \in 0..n}

RECURSIVE ConcatAll(_)
ConcatAll(ss) == IF ss = <<>> THEN <<>> ELSE Head(ss) \o ConcatAll(Tail(ss))

Count(s, x) == Cardinality({i \in 1..Len(s) : s[i] = x})

(***************************************************************************)
(* etl/videos.py: the chaptered-document builder.                          *)
(***************************************************************************)
\* {"time": 1e10}, in units of ten seconds
LastChapterEnd == 1000000000

video_info == [id |-> "vid", title |-> "Title"]

SegTexts == {<<"a">>, <<" ", "b">>}
SegStarts == (0..MaxTime) \cup {LastChapterEnd - 1, LastChapterEnd}
Segments == [start : SegStarts, text : SegTexts]
ChapterTitles == {"Intro"}
SvcChapter == [time : 0..MaxTime, title : ChapterTitles, thumbnails : {"thumbs"}]

IsSortedByTime(cs) == \A i \in 1..(Len(cs) - 1) : cs[i].time <= cs[i + 1].time

\* " ".join(parts)
RECURSIVE JoinSpace(_)
JoinSpace(parts) ==
    IF parts = <<>> THEN <<>>
    ELSE IF Len(parts) = 1 THEN Head(parts)
    ELSE Head(parts) \o <<" ">> \o JoinSpace(Tail(parts))

\* str.strip()
RECURSIVE LStrip(_)
LStrip(s) == IF s # <<>> /\ Head(s) = " " THEN LStrip(Tail(s)) ELSE s

RECURSIVE RStrip(_)
RStrip(s) ==
    IF s # <<>> /\ s[Len(s)] = " " THEN RStrip(SubSeq(s, 1, Len(s) - 1)) ELSE s

Strip(s) == RStrip(LStrip(s))

\* next_chapter = chapters[ii + 1] if ii < len(chapters) - 1 else {"time": 1e10}
\* (ii is 1-based here)
NextChapterTime(cs, ii) == IF ii < Len(cs) THEN cs[ii + 1].time ELSE LastChapterEnd

\* if seg["start"] >= chapter["time"] and seg["start"] < next_chapter["time"]
InWindow(seg, from, to) == seg.start >= from /\ seg.start < to

\* the indices, in order, of the segments the list comprehension keeps
RECURSIVE SelectFrom(_, _, _, _)
SelectFrom(subs, k, from, to) ==
    IF k > Len(subs) THEN <<>>
    ELSE (IF InWindow(subs[k], from, to) THEN <<k>> ELSE <<>>)
         \o SelectFrom(subs, k + 1, from, to)

Selected(cs, subs, ii) == SelectFrom(subs, 1, cs[ii].time, NextChapterTime(cs, ii))

ChapterText(cs, subs, ii) ==
    JoinSpace([j \in 1..Len(Selected(cs, subs, ii)) |-> subs[Selected(cs, subs, ii)[j]].text])

\* add_transcript(chapters, subtitles)
add_transcript(cs, subs) ==
    [ii \in 1..Len(cs) |->
        [time |-> cs[ii].time, title |-> cs[ii].title, text |-> ChapterText(cs, subs, ii)]]

\* create_documents(chapters, id, video_title)
create_documents(cs, id, video_title) ==
    [ii \in 1..Len(cs) |->
        [text |-> Strip(cs[ii].text),
         metadata |->
            [source |-> <<"https://www.youtube.com/watch?v=", id, "&t=", cs[ii].time, "s">>,
             title |-> video_title,
             chapter_title |-> cs[ii].title,
             full_title |-> <<video_title, " - ", cs[ii].title>>]]]

\* assert len(chapters) >= 0, "Video has no chapters"
ChaptersAssert(cs) == Len(cs) >= 0

InitExtract ==
    /\ epc = "start"
    /\ transcript \in SeqsUpTo(Segments, MaxSegs)
    /\ svcChapters \in {cs \in SeqsUpTo(SvcChapter, MaxChapters) : IsSortedByTime(cs)}
    /\ subtitles = <<>>
    /\ chapters = <<>>
    /\ assigned = <<>>
    /\ documents = <<>>

IdleExtract ==
    /\ epc = "idle"
    /\ transcript = <<>>
    /\ svcChapters = <<>>
    /\ subtitles = <<>>
    /\ chapters = <<>>
    /\ assigned = <<>>
    /\ documents = <<>>

\* subtitles = get_transcript(video_id); the service may raise
GetTranscript ==
    /\ epc = "start"
    /\ \/ /\ subtitles' = transcript
          /\ epc' = "got_transcript"
       \/ /\ epc' = "raised"
          /\ UNCHANGED subtitles
    /\ UNCHANGED <<transcript, svcChapters, chapters, assigned, documents, notE>>

\* chapters = get_chapters(video_id)
GetChapters ==
    /\ epc = "got_transcript"
    /\ \/ \* response.raise_for_status() raises
          /\ epc' = "raised"
          /\ UNCHANGED chapters
       \/ \* the response is read, the assertion is evaluated, thumbnails are deleted
          IF ChaptersAssert(svcChapters)
          THEN /\ chapters' = [ii \in 1..Len(svcChapters) |->
                                  [time |-> svcChapters[ii].time,
                                   title |-> svcChapters[ii].title]]
               /\ epc' = "got_chapters"
          ELSE /\ epc' = "raised"
               /\ UNCHANGED chapters
    /\ UNCHANGED <<transcript, svcChapters, subtitles, assigned, documents, notE>>

\* chapters = add_transcript(chapters, subtitles)
AddTranscript ==
    /\ epc = "got_chapters"
    /\ chapters' = add_transcript(chapters, subtitles)
    /\ assigned' = [ii \in 1..Len(chapters) |-> Selected(chapters, subtitles, ii)]
    /\ epc' = "added"
    /\ UNCHANGED <<transcript, svcChapters, subtitles, documents, notE>>

\* documents = create_documents(chapters, video_id, video_title); return documents
CreateDocuments ==
    /\ epc = "added"
    /\ documents' = create_documents(chapters, video_info.id, video_info.title)
    /\ epc' = "returned"
    /\ UNCHANGED <<transcript, svcChapters, subtitles, chapters, assigned, notE>>

NextExtract ==
    \/ GetTranscript
    \/ GetChapters
    \/ AddTranscript
    \/ CreateDocuments


(***************************************************************************)
(* etl/videos.py main: the parallel extraction stage.  Every item is run   *)
(* as its own function call under                                          *)
(*   modal.Retries(max_retries=3, backoff_coefficient=2.0, initial_delay=5)*)
(* and map(..., return_exceptions=True) hands the results to flatten in    *)
(* submission order.                                                       *)
(***************************************************************************)
max_retries == 3

\* extract_subtitles.map(video_infos, return_exceptions=True)
return_exceptions == TRUE

Items == 1..NumItems

\* the documents item i's extraction returns when an attempt succeeds
DocCount(i) == i % (MaxDocsPerItem + 1)
DocsOf(i) == [k \in 1..DocCount(i) |-> <<i, k>>]

NoValue == [kind |-> "none"]
ExceptionValue == [kind |-> "exception"]
OkValue(docs) == [kind |-> "ok", docs |-> docs]
IsException(r) == r.kind = "exception"
IsOk(r) == r.kind = "ok"

\* faulty variant: the first attempt counted as a retry
MayRetryOffByOne(attemptsMade) == attemptsMade < max_retries
\* a failed attempt is retried while fewer than max_retries retries were made
MayRetry(attemptsMade) == attemptsMade - 1 < max_retries

\* faulty variant: results yielded as they complete
NextToYieldAnyOrder ==
    {i \in Items : result[i] # NoValue /\ Count(yielded, i) = 0}
\* the map generator yields results in the order the inputs were submitted
NextToYield ==
    {i \in Items : i = Len(yielded) + 1 /\ result[i] # NoValue}

\* flatten: "if not isinstance(sublist, Exception) for item in sublist"
FlattenStep(r) == IF IsException(r) THEN <<>> ELSE r.docs

InitOrch ==
    /\ opc = "mapping"
    /\ ostat = [i \in Items |-> "queued"]
    /\ attempts = [i \in Items |-> 0]
    /\ failures = [i \in Items |-> 0]
    /\ result = [i \in Items |-> NoValue]
    /\ yielded = <<>>
    /\ flat = <<>>
    /\ outOfOrder = FALSE

IdleOrch ==
    /\ opc = "idle"
    /\ ostat = <<>>
    /\ attempts = <<>>
    /\ failures = <<>>
    /\ result = <<>>
    /\ yielded = <<>>
    /\ flat = <<>>
    /\ outOfOrder = FALSE

EarlierPending(i) == \E j \in Items : j < i /\ ostat[j] # "done"

\* a worker starts item i: its first attempt, or a retry after the backoff
StartAttempt(i) ==
    /\ opc = "mapping"
    /\ ostat[i] \in {"queued", "backoff"}
    /\ ostat' = [ostat EXCEPT ![i] = "running"]
    /\ attempts' = [attempts EXCEPT ![i] = @ + 1]
    /\ UNCHANGED <<opc, failures, result, yielded, flat, outOfOrder, notO>>

\* the attempt returns its documents
AttemptReturns(i) ==
    /\ opc = "mapping"
    /\ ostat[i] = "running"
    /\ ostat' = [ostat EXCEPT ![i] = "done"]
    /\ result' = [result EXCEPT ![i] = OkValue(DocsOf(i))]
    /\ outOfOrder' = (outOfOrder \/ EarlierPending(i))
    /\ UNCHANGED <<opc, attempts, failures, yielded, flat, notO>>

\* the attempt raises: it is retried, or, the retries exhausted, its exception
\* becomes the item's result
AttemptRaises(i) ==
    /\ opc = "mapping"
    /\ ostat[i] = "running"
    /\ failures' = [failures EXCEPT ![i] = @ + 1]
    /\ IF MayRetry(attempts[i])
       THEN /\ ostat' = [ostat EXCEPT ![i] = "backoff"]
            /\ UNCHANGED <<result, outOfOrder>>
       ELSE /\ ostat' = [ostat EXCEPT ![i] = "done"]
            /\ result' = [result EXCEPT ![i] = ExceptionValue]
            /\ outOfOrder' = (outOfOrder \/ EarlierPending(i))
    /\ UNCHANGED <<opc, attempts, yielded, flat, notO>>

\* flatten takes the next result from the map generator
MapYield ==
    /\ opc = "mapping"
    /\ \E i \in NextToYield :
        /\ yielded' = Append(yielded, i)
        /\ IF IsException(result[i]) /\ ~return_exceptions
           THEN /\ opc' = "raised"
                /\ UNCHANGED flat
           ELSE /\ flat' = flat \o FlattenStep(result[i])
                /\ opc' = IF Len(yielded') = NumItems THEN "flattened" ELSE "mapping"
    /\ UNCHANGED <<ostat, attempts, failures, result, outOfOrder, notO>>

NextOrch ==
    \/ \E i \in Items : StartAttempt(i)
    \/ \E i \in Items : AttemptReturns(i)
    \/ \E i \in Items : AttemptRaises(i)
    \/ MapYield

(***************************************************************************)
(* etl/shared.py: add_to_document_db.  A document is identified by its     *)
(* position in the input.                                                  *)
(***************************************************************************)
CHUNK_SIZE == 250

InsertOne(document) == [insert |-> document]

InputLengths ==
    {0, 1, CHUNK_SIZE - 1, CHUNK_SIZE, CHUNK_SIZE + 1, 2 * CHUNK_SIZE + MaxExtraDocs}

\* faulty variant: > for >=
BatchFullOffByOne(req) == Len(req) > CHUNK_SIZE
\* if len(requesting) >= CHUNK_SIZE
BatchFull(req) == Len(req) >= CHUNK_SIZE

\* if requesting:
FlushNeeded(req) == req # <<>>

InitDb ==
    /\ dpc = "loop"
    /\ documents_json \in {[k \in 1..n |-> k] : n \in InputLengths}
    /\ consumed = 0
    /\ requesting = <<>>
    /\ writes = <<>>

IdleDb ==
    /\ dpc = "idle"
    /\ documents_json = <<>>
    /\ consumed = 0
    /\ requesting = <<>>
    /\ writes = <<>>

\* one iteration of "for document in documents_json"
DbLoopStep ==
    /\ dpc = "loop"
    /\ consumed < Len(documents_json)
    /\ consumed' = consumed + 1
    /\ LET req == Append(requesting, InsertOne(documents_json[consumed + 1])) IN
        IF BatchFull(req)
        THEN \/ \* collection.bulk_write(requesting) succeeds
                /\ writes' = Append(writes, [batch |-> req, ok |-> TRUE])
                /\ requesting' = <<>>
                /\ dpc' = "loop"
             \/ \* collection.bulk_write(requesting) raises: the call ends
                /\ writes' = Append(writes, [batch |-> req, ok |-> FALSE])
                /\ requesting' = req
                /\ dpc' = "raised"
        ELSE /\ requesting' = req
             /\ UNCHANGED <<writes, dpc>>
    /\ UNCHANGED <<documents_json, notD>>

\* after the loop: the final partial batch
DbFlush ==
    /\ dpc = "loop"
    /\ consumed = Len(documents_json)
    /\ IF FlushNeeded(requesting)
       THEN \/ /\ writes' = Append(writes, [batch |-> requesting, ok |-> TRUE])
               /\ dpc' = "returned"
            \/ /\ writes' = Append(writes, [batch |-> requesting, ok |-> FALSE])
               /\ dpc' = "raised"
       ELSE /\ dpc' = "returned"
            /\ UNCHANGED writes
    /\ UNCHANGED <<documents_json, consumed, requesting, notD>>

NextDb ==
    \/ DbLoopStep
    \/ DbFlush

(***************************************************************************)
(* app.py: prep_documents_for_vector_storage.  A text is known by its      *)
(* length in tokens; a chunk is the window of token positions it covers.   *)
(* The splitter is RecursiveCharacterTextSplitter.from_tiktoken_encoder(   *)
(* chunk_size=500, chunk_overlap=100): windows of at most chunk_size       *)
(* tokens, each starting chunk_size - chunk_overlap tokens after the one   *)
(* before; an empty text gives no chunk.                                   *)
(***************************************************************************)
chunk_size == 500
chunk_overlap == 100

Min(a, b) == IF a <= b THEN a ELSE b
Max(a, b) == IF a >= b THEN a ELSE b

RECURSIVE SplitFrom(_, _)
SplitFrom(len, from) ==
    IF len = 0 THEN <<>>
    ELSE IF from + chunk_size >= len THEN <<[from |-> from, to |-> len]>>
    ELSE <<[from |-> from, to |-> from + chunk_size]>>
         \o SplitFrom(len, from + chunk_size - chunk_overlap)

\* text_splitter.split_text(text)
split_text(text) == SplitFrom(text, 0)

\* faulty variant: one metadata per document
RepeatOnce(metadata, n) == <<metadata>>
\* [metadata] * len(doc_texts)
Repeat(metadata, n) == [k \in 1..n |-> metadata]

TextLengths ==
    {0, 1, chunk_size, chunk_size + 1, 2 * chunk_size - chunk_overlap + MaxExtraTokens}
Metadata == {[source |-> "u1"], [source |-> "u2"]}
StoredDocument == [text : TextLengths, metadata : Metadata]

InitSplit ==
    /\ spc = "loop"
    /\ sdocs \in SeqsUpTo(StoredDocument, MaxSplitDocs)
    /\ sdone = 0
    /\ texts = <<>>
    /\ metadatas = <<>>
    /\ origin = <<>>

IdleSplit ==
    /\ spc = "idle"
    /\ sdocs = <<>>
    /\ sdone = 0
    /\ texts = <<>>
    /\ metadatas = <<>>
    /\ origin = <<>>

\* one iteration of "for document in documents"
SplitDocument ==
    /\ spc = "loop"
    /\ sdone < Len(sdocs)
    /\ LET document == sdocs[sdone + 1]
           doc_texts == split_text(document.text)
           doc_metadatas == Repeat(document.metadata, Len(doc_texts))
       IN /\ texts' = texts \o doc_texts
          /\ metadatas' = metadatas \o doc_metadatas
          /\ origin' = origin \o [k \in 1..Len(doc_texts) |-> sdone + 1]
    /\ sdone' = sdone + 1
    /\ UNCHANGED <<spc, sdocs, notS>>

\* return texts, metadatas
SplitReturn ==
    /\ spc = "loop"
    /\ sdone = Len(sdocs)
    /\ spc' = "returned"
    /\ UNCHANGED <<sdocs, sdone, texts, metadatas, origin, notS>>

NextSplit ==
    \/ SplitDocument
    \/ SplitReturn

(***************************************************************************)
(* app.py: create_vector_index (build, then persist on the shared volume)  *)
(* and qanda (load, search, complete), running concurrently.               *)
(*                                                                         *)
(* Chunk j of the corpus of build g has text <<g, j>>; its vector is known *)
(* by the same pair.  vector_index.save_local writes <name>.faiss and then *)
(* <name>.pkl, in place.                                                   *)
(***************************************************************************)
SourceNames == <<"u1", "u2">>
SourceOf(g, j) == SourceNames[((g + j) % Len(SourceNames)) + 1]

CorpusSizes == 0..MaxChunks

AbsentFile == [present |-> FALSE, gen |-> 0, entries |-> <<>>]
NoIndex == [vectors |-> AbsentFile, store |-> AbsentFile]
NoMemIndex == [vectors |-> <<>>, store |-> <<>>]
NoAnswer == [none |-> TRUE]

\* vecstore.create_vector_index(INDEX_NAME, embedding_engine, texts, metadatas):
\* one vector per text, in order, each mapped to its text and metadata
vecstore_create_vector_index(txts, metas) ==
    [vectors |-> txts,
     store |-> [j \in 1..Len(txts) |-> [page_content |-> txts[j], metadata |-> metas[j]]]]

\* vecstore.connect_to_vector_index(INDEX_NAME, embedding_engine): the index
\* is absent unless both of its files are there
IndexAbsent == ~faissFile.present \/ ~pklFile.present
vecstore_connect_to_vector_index == [vectors |-> faissFile, store |-> pklFile]

\* similarity_search_with_score(query, k=3)
search_k == 3

\* the vectors nearest to the query, nearest first: the query decides which
\* vector comes first (r); at most k are returned
NearestIds(n, r) == [j \in 1..Min(search_k, n) |-> ((r + j - 2) % n) + 1]

\* faulty variant: an unpacking that accepts zero results
UnzipNeverRaises(pairs) == FALSE
\* sources, _scores = zip(*sources_and_scores): ValueError on zero results
UnzipRaises(pairs) == pairs = <<>>

\* faulty variant: the two unpacked names swapped
SwappedUnzip(pairs) == [j \in 1..Len(pairs) |-> pairs[j][2]]
\* sources: the documents of the pairs, in order
InputDocuments(pairs) == [j \in 1..Len(pairs) |-> pairs[j][1]]

\* what the completion service may answer
CompletionTexts ==
    {[body |-> "FINAL ANSWER", cites |-> <<"u1">>],
     [body |-> "No relevant sources found", cites |-> <<>>]}

\* answer = result["output_text"]; return answer
QandaReturn(res) == [text |-> res.output_text]

InitQA ==
    /\ faissFile = AbsentFile
    /\ pklFile = AbsentFile
    /\ bpc = "idle"
    /\ bgen = 0
    /\ btexts = <<>>
    /\ bmetas = <<>>
    /\ memIndex = NoMemIndex
    /\ bfail = "none"
    /\ diskBefore = <<AbsentFile, AbsentFile>>
    /\ qpc = "start"
    /\ qindex = NoIndex
    /\ sas = <<>>
    /\ sources = <<>>
    /\ llmCalls = <<>>
    /\ output_text = NoAnswer
    /\ answer = NoAnswer
    /\ qfail = "none"

IdleQA ==
    /\ faissFile = AbsentFile
    /\ pklFile = AbsentFile
    /\ bpc = "off"
    /\ bgen = 0
    /\ btexts = <<>>
    /\ bmetas = <<>>
    /\ memIndex = NoMemIndex
    /\ bfail = "none"
    /\ diskBefore = <<AbsentFile, AbsentFile>>
    /\ qpc = "off"
    /\ qindex = NoIndex
    /\ sas = <<>>
    /\ sources = <<>>
    /\ llmCalls = <<>>
    /\ output_text = NoAnswer
    /\ answer = NoAnswer
    /\ qfail = "none"

\* create_vector_index, up to the split: the documents are read and chunked
BuildPrepare ==
    /\ bpc \in {"idle", "saved", "failed"}
    /\ bgen < MaxBuilds
    /\ bgen' = bgen + 1
    /\ \E n \in CorpusSizes :
        /\ btexts' = [j \in 1..n |-> <<bgen + 1, j>>]
        /\ bmetas' = [j \in 1..n |-> [source |-> SourceOf(bgen + 1, j)]]
    /\ memIndex' = NoMemIndex
    /\ bfail' = "none"
    /\ diskBefore' = <<faissFile, pklFile>>
    /\ bpc' = "prepared"
    /\ UNCHANGED <<fvars, qvars, notQA>>

\* faulty variant: the failure is swallowed and what was embedded is kept
BuildEmbedKeepsGoing ==
    /\ bpc = "prepared"
    /\ \/ /\ memIndex' = vecstore_create_vector_index(btexts, bmetas)
          /\ bpc' = "built"
          /\ UNCHANGED bfail
       \/ /\ bfail' = "embedding"
          /\ memIndex' = vecstore_create_vector_index(<<>>, <<>>)
          /\ bpc' = "built"
    /\ UNCHANGED <<bgen, btexts, bmetas, diskBefore, fvars, qvars, notQA>>

\* vector_index = vecstore.create_vector_index(...): the embedding service
\* may fail, and the exception then ends create_vector_index
BuildEmbed ==
    /\ bpc = "prepared"
    /\ \/ /\ memIndex' = vecstore_create_vector_index(btexts, bmetas)
          /\ bpc' = "built"
          /\ UNCHANGED bfail
       \/ /\ bfail' = "embedding"
          /\ bpc' = "failed"
          /\ UNCHANGED memIndex
    /\ UNCHANGED <<bgen, btexts, bmetas, diskBefore, fvars, qvars, notQA>>

\* vector_index.save_local(folder_path=VECTOR_DIR, index_name=INDEX_NAME):
\* first the .faiss file is written ...
SaveFaiss ==
    /\ bpc = "built"
    /\ faissFile' = [present |-> TRUE, gen |-> bgen, entries |-> memIndex.vectors]
    /\ bpc' = "faiss_written"
    /\ UNCHANGED <<pklFile, bgen, btexts, bmetas, memIndex, bfail, diskBefore, qvars, notQA>>

\* ... then the .pkl file
SavePkl ==
    /\ bpc = "faiss_written"
    /\ pklFile' = [present |-> TRUE, gen |-> bgen, entries |-> memIndex.store]
    /\ bpc' = "saved"
    /\ UNCHANGED <<faissFile, bgen, btexts, bmetas, memIndex, bfail, diskBefore, qvars, notQA>>

\* vector_index = vecstore.connect_to_vector_index(INDEX_NAME, embedding_engine)
QLoad ==
    /\ qpc = "start"
    /\ \/ /\ ~IndexAbsent
          /\ qindex' = vecstore_connect_to_vector_index
          /\ qpc' = "loaded"
          /\ UNCHANGED qfail
       \/ \* the index is absent, or the volume cannot be reached
          /\ qfail' = "index"
          /\ qpc' = "error"
          /\ UNCHANGED qindex
    /\ UNCHANGED <<sas, sources, llmCalls, output_text, answer, fvars, bvars, notQA>>

\* sources_and_scores = vector_index.similarity_search_with_score(query, k=3)
\* sources, _scores = zip(*sources_and_scores)
QSearch ==
    /\ qpc = "loaded"
    /\ \/ \* the embedding service fails on the query
          /\ qfail' = "embedding"
          /\ qpc' = "error"
          /\ UNCHANGED <<sas, sources>>
       \/ \E r \in 1..Max(1, Len(qindex.vectors.entries)) :
            LET ids == NearestIds(Len(qindex.vectors.entries), r) IN
            IF \E j \in 1..Len(ids) : ids[j] > Len(qindex.store.entries)
            THEN \* a vector without its chunk in the store
                 /\ qfail' = "lookup"
                 /\ qpc' = "error"
                 /\ UNCHANGED <<sas, sources>>
            ELSE LET found == [j \in 1..Len(ids) |->
                                  <<qindex.store.entries[ids[j]], [distance |-> j]>>] IN
                 /\ sas' = found
                 /\ IF UnzipRaises(found)
                    THEN /\ qfail' = "empty"
                         /\ qpc' = "error"
                         /\ UNCHANGED sources
                    ELSE /\ sources' = InputDocuments(found)
                         /\ qpc' = "searched"
                         /\ UNCHANGED qfail
    /\ UNCHANGED <<qindex, llmCalls, output_text, answer, fvars, bvars, notQA>>

\* result = chain({"input_documents": sources, "question": query}, ...)
\* answer = result["output_text"]; return answer
QComplete ==
    /\ qpc = "searched"
    /\ llmCalls' = Append(llmCalls, [input_documents |-> sources])
    /\ \/ \E t \in CompletionTexts :
            /\ output_text' = t
            /\ answer' = QandaReturn([output_text |-> t])
            /\ qpc' = "done"
            /\ UNCHANGED qfail
       \/ \* the completion service fails
          /\ qfail' = "completion"
          /\ qpc' = "error"
          /\ UNCHANGED <<output_text, answer>>
    /\ UNCHANGED <<qindex, sas, sources, fvars, bvars, notQA>>

NextQA ==
    \/ BuildPrepare
    \/ BuildEmbed
    \/ SaveFaiss
    \/ SavePkl
    \/ QLoad
    \/ QSearch
    \/ QComplete

(***************************************************************************)
(* etl/videos.py: one call of extract_subtitles (or extract_videos) under  *)
(* modal.Retries(max_retries=3, backoff_coefficient=2.0,                   *)
(* initial_delay=5.0), with the time at which each attempt starts and      *)
(* fails.                                                                  *)
(***************************************************************************)
initial_delay == 5
backoff_coefficient == 2

RECURSIVE Pow(_, _)
Pow(b, e) == IF e = 0 THEN 1 ELSE b * Pow(b, e - 1)

\* faulty variant: a delay growing by initial_delay each time
RetryDelayLinear(attempt) == initial_delay * (attempt + 1)
\* the delay before retry number attempt (0 for the first retry)
RetryDelay(attempt) == initial_delay * Pow(backoff_coefficient, attempt)

\* a retry is started once its delay has elapsed since the failure
RetryDue == rclock >= rfailedAt + rdelays[Len(rdelays)]

InitRetry ==
    /\ rpc = "running"
    /\ rclock = 0
    /\ rattempts = 1
    /\ rstartedAt = 0
    /\ rfailedAt = 0
    /\ rdelays = <<>>

IdleRetry ==
    /\ rpc = "off"
    /\ rclock = 0
    /\ rattempts = 0
    /\ rstartedAt = 0
    /\ rfailedAt = 0
    /\ rdelays = <<>>

\* a second passes
RetryTick ==
    /\ rpc \in {"running", "backoff"}
    /\ rclock < MaxClock
    /\ rclock' = rclock + 1
    /\ UNCHANGED <<rpc, rattempts, rstartedAt, rfailedAt, rdelays, notR>>

\* the attempt returns
RetryReturns ==
    /\ rpc = "running"
    /\ rpc' = "returned"
    /\ UNCHANGED <<rclock, rattempts, rstartedAt, rfailedAt, rdelays, notR>>

\* the attempt raises: a retry is scheduled, or the retries are exhausted
RetryRaises ==
    /\ rpc = "running"
    /\ rfailedAt' = rclock
    /\ IF MayRetry(rattempts)
       THEN /\ rdelays' = Append(rdelays, RetryDelay(rattempts - 1))
            /\ rpc' = "backoff"
       ELSE /\ rpc' = "dropped"
            /\ UNCHANGED rdelays
    /\ UNCHANGED <<rclock, rattempts, rstartedAt, notR>>

\* the retry starts
RetryStarts ==
    /\ rpc = "backoff"
    /\ RetryDue
    /\ rpc' = "running"
    /\ rattempts' = rattempts + 1
    /\ rstartedAt' = rclock
    /\ UNCHANGED <<rclock, rfailedAt, rdelays, notR>>

NextRetry ==
    \/ RetryTick
    \/ RetryReturns
    \/ RetryRaises
    \/ RetryStarts

(***************************************************************************)
(* etl/shared.py chunk_into, and etl/videos.py main: the flattened list is *)
(* cut into 10 pieces and one add_to_document_db call per piece runs in    *)
(* parallel.  A document is identified by its position in the list.        *)
(***************************************************************************)
n_chunks == 10

FlatLengths ==
    {0, 1, n_chunks - 1, n_chunks, n_chunks + 1, 2 * n_chunks + MaxExtraFlat}

\* len(list[i::n]) for a 0-based i
SliceLen(len, i, n) == IF i >= len THEN 0 ELSE ((len - i - 1) \div n) + 1

\* faulty variant: list[i + 1::n_chunks]
SliceFromNext(list, i, n) ==
    [k \in 1..SliceLen(Len(list), i + 1, n) |-> list[(i + 1) + (k - 1) * n + 1]]
\* list[i::n_chunks] for a 0-based i
Slice(list, i, n) ==
    [k \in 1..SliceLen(Len(list), i, n) |-> list[i + (k - 1) * n + 1]]

\* for i in range(0, n_chunks): yield list[i::n_chunks]
chunk_into(list, n) == [p \in 1..n |-> Slice(list, p - 1, n)]

\* the batches one add_to_document_db call hands to collection.bulk_write
RECURSIVE DbBatches(_, _, _)
DbBatches(docs, k, req) ==
    IF k > Len(docs)
    THEN (IF FlushNeeded(req) THEN <<req>> ELSE <<>>)
    ELSE LET r == Append(req, InsertOne(docs[k])) IN
         IF BatchFull(r) THEN <<r>> \o DbBatches(docs, k + 1, <<>>)
         ELSE DbBatches(docs, k + 1, r)

\* the documents of the first j batches
RECURSIVE DocsIn(_, _)
DocsIn(batches, j) ==
    IF j = 0 THEN {}
    ELSE {batches[j][k].insert : k \in 1..Len(batches[j])} \cup DocsIn(batches, j - 1)

Writers == 1..n_chunks

InitChunk ==
    /\ cpc = "start"
    /\ flatDocs \in {[k \in 1..n |-> k] : n \in FlatLengths}
    /\ pieces = <<>>
    /\ wstat = [w \in Writers |-> "pending"]
    /\ submitted = <<>>

IdleChunk ==
    /\ cpc = "off"
    /\ flatDocs = <<>>
    /\ pieces = <<>>
    /\ wstat = <<>>
    /\ submitted = <<>>

\* chunked_documents = etl.shared.chunk_into(documents, 10); the map is submitted
ChunkDocuments ==
    /\ cpc = "start"
    /\ pieces' = chunk_into(flatDocs, n_chunks)
    /\ submitted' = [d \in 1..Len(flatDocs) |-> 0]
    /\ cpc' = "writing"
    /\ UNCHANGED <<flatDocs, wstat, notC>>

\* one add_to_document_db call runs to its end: every batch is written
WriterReturns(w) ==
    /\ cpc = "writing"
    /\ wstat[w] = "pending"
    /\ LET batches == DbBatches(pieces[w], 1, <<>>) IN
        submitted' = [d \in DOMAIN submitted |->
                         submitted[d] + (IF d \in DocsIn(batches, Len(batches)) THEN 1 ELSE 0)]
    /\ wstat' = [wstat EXCEPT ![w] = "done"]
    /\ UNCHANGED <<cpc, flatDocs, pieces, notC>>

\* one add_to_document_db call raises: at the connection (j = 0) or in its
\* j-th bulk write, which was sent.  The map is called without
\* return_exceptions, so list(...) raises in main and the run ends.
WriterRaises(w) ==
    /\ cpc = "writing"
    /\ wstat[w] = "pending"
    /\ LET batches == DbBatches(pieces[w], 1, <<>>) IN
        \E j \in 0..Len(batches) :
            submitted' = [d \in DOMAIN submitted |->
                             submitted[d] + (IF d \in DocsIn(batches, j) THEN 1 ELSE 0)]
    /\ wstat' = [wstat EXCEPT ![w] = "raised"]
    /\ cpc' = "raised"
    /\ UNCHANGED <<flatDocs, pieces, notC>>

\* list(...map(...)) returns: every call has returned
MapReturns ==
    /\ cpc = "writing"
    /\ \A w \in Writers : wstat[w] = "done"
    /\ cpc' = "finished"
    /\ UNCHANGED <<flatDocs, pieces, wstat, submitted, notC>>

NextChunk ==
    \/ ChunkDocuments
    \/ \E w \in Writers : WriterReturns(w)
    \/ \E w \in Writers : WriterRaises(w)
    \/ MapReturns

(***************************************************************************)
(* The specifications, one per component.                                  *)
(***************************************************************************)
StartExtract == InitExtract /\ IdleOrch /\ IdleDb /\ IdleSplit /\ IdleQA /\ IdleRetry /\ IdleChunk
SpecExtract == StartExtract /\ [][NextExtract]_vars

StartOrch == InitOrch /\ IdleExtract /\ IdleDb /\ IdleSplit /\ IdleQA /\ IdleRetry /\ IdleChunk
SpecOrch == StartOrch /\ [][NextOrch]_vars

StartDb == InitDb /\ IdleExtract /\ IdleOrch /\ IdleSplit /\ IdleQA /\ IdleRetry /\ IdleChunk
SpecDb == StartDb /\ [][NextDb]_vars

StartSplit == InitSplit /\ IdleExtract /\ IdleOrch /\ IdleDb /\ IdleQA /\ IdleRetry /\ IdleChunk
SpecSplit == StartSplit /\ [][NextSplit]_vars

StartQA == InitQA /\ IdleExtract /\ IdleOrch /\ IdleDb /\ IdleSplit /\ IdleRetry /\ IdleChunk
SpecQA == StartQA /\ [][NextQA]_vars

StartRetry == InitRetry /\ IdleExtract /\ IdleOrch /\ IdleDb /\ IdleSplit /\ IdleQA /\ IdleChunk
SpecRetry == StartRetry /\ [][NextRetry]_vars

StartChunk ==
    InitChunk /\ IdleExtract /\ IdleOrch /\ IdleDb /\ IdleSplit /\ IdleQA /\ IdleRetry
SpecChunk == StartChunk /\ [][NextChunk]_vars


(***************************************************************************)
(* C1: for chapter markers sorted ascending, add_transcript assigns every  *)
(* segment to exactly one chapter: none dropped, none duplicated,          *)
(* including a segment that starts before the first marker and a segment   *)
(* whose start is arbitrarily large.  (Stated for a non-empty marker       *)
(* list.)                                                                  *)
(***************************************************************************)
TimesAssigned(k) ==
    Cardinality({ii \in 1..Len(assigned) : Count(assigned[ii], k) > 0})

C1_ChapteringPartition ==
    (epc \in {"added", "returned"} /\ Len(chapters) >= 1) =>
        /\ \A k \in 1..Len(subtitles) : TimesAssigned(k) = 1
        /\ \A ii \in 1..Len(assigned) : \A k \in 1..Len(subtitles) :
               Count(assigned[ii], k) <= 1

(***************************************************************************)
(* C4: when the chapter-metadata service returns an empty chapter list,    *)
(* get_chapters, and so extract_subtitles, ends in an error; it never      *)
(* returns an empty chapter list or an empty document list as a success.   *)
(***************************************************************************)
C4_ZeroChaptersIsError ==
    svcChapters = <<>> => epc \notin {"got_chapters", "added", "returned"}

(***************************************************************************)
(* C2: when the stage has flattened the results of N items of which some   *)
(* failed every attempt, the result is exactly the concatenation of the    *)
(* document lists of the other items, in submission order, whatever the    *)
(* order in which the items completed; no failure is raised to the caller  *)
(* and no failure stops a sibling from completing.                         *)
(***************************************************************************)
FailedEveryAttempt(i) == ostat[i] = "done" /\ failures[i] = attempts[i]

C2_IsolationAndOrder ==
    /\ opc # "raised"
    /\ opc = "flattened" =>
        /\ \A i \in Items : ostat[i] = "done"
        /\ flat = ConcatAll([i \in Items |->
                      IF FailedEveryAttempt(i) THEN <<>> ELSE DocsOf(i)])

C2_Witness ==
    /\ opc = "flattened"
    /\ outOfOrder
    /\ FailedEveryAttempt(2)
    /\ ~FailedEveryAttempt(1)
    /\ ~FailedEveryAttempt(NumItems)
    /\ failures[1] > 0

(***************************************************************************)
(* C3: with max_retries = 3 an item whose every attempt fails is attempted *)
(* exactly 4 times (1 initial attempt and 3 retries) and then dropped; an  *)
(* item that succeeded is never attempted again.                           *)
(***************************************************************************)
C3_RetryBoundState ==
    \A i \in Items :
        /\ attempts[i] <= 4
        /\ IsException(result[i]) <=> (ostat[i] = "done" /\ failures[i] = 4)
        /\ failures[i] = 4 => (attempts[i] = 4 /\ IsException(result[i]))
        /\ (IsOk(result[i])) => failures[i] = attempts[i] - 1

C3_NoAttemptAfterSuccess ==
    \A i \in Items :
        (IsOk(result[i])) =>
            (attempts'[i] = attempts[i] /\ result'[i] = result[i])

C3_RetryBound == []C3_RetryBoundState /\ [][C3_NoAttemptAfterSuccess]_vars

C3_Witness ==
    /\ IsException(result[1]) /\ attempts[1] = 4
    /\ IsOk(result[2]) /\ attempts[2] = 3

(***************************************************************************)
(* C9: add_to_document_db issues bulk writes of between 1 and 250          *)
(* documents each; the batches, in the order issued, are consecutive       *)
(* pieces of the input, so every document is in at most one bulk write and *)
(* in input order; when the call returns every document has been written   *)
(* (the final partial batch is flushed, an empty input issues no write);   *)
(* a bulk write that fails is not issued again: it ends the call.          *)
(***************************************************************************)
BatchDocs(w) == [k \in 1..Len(w.batch) |-> w.batch[k].insert]
Written == ConcatAll([j \in 1..Len(writes) |-> BatchDocs(writes[j])])

C9_BoundedBulkWrites ==
    /\ \A j \in 1..Len(writes) : Len(writes[j].batch) >= 1 /\ Len(writes[j].batch) <= 250
    /\ Len(Written) <= Len(documents_json)
    /\ Written = SubSeq(documents_json, 1, Len(Written))
    /\ \A j \in 1..Len(writes) : ~writes[j].ok => (j = Len(writes) /\ dpc = "raised")
    /\ dpc = "raised" => (writes # <<>> /\ ~writes[Len(writes)].ok)
    /\ dpc = "returned" => Written = documents_json
    /\ (dpc = "returned" /\ documents_json = <<>>) => writes = <<>>

C9_Witness ==
    /\ dpc = "returned"
    /\ Len(writes) = 3
    /\ Len(writes[1].batch) = 250
    /\ Len(writes[3].batch) < 250

(***************************************************************************)
(* C10: prep_documents_for_vector_storage returns two sequences of equal   *)
(* length; the i-th metadata is the metadata of the document whose split   *)
(* produced the i-th chunk; all chunks of one document carry the same      *)
(* metadata; chunks come in document order, then in split order.           *)
(***************************************************************************)
ChunksBefore(d) == Cardinality({j \in 1..Len(origin) : origin[j] < d})

C10_SplitterAlignment ==
    /\ Len(texts) = Len(metadatas)
    /\ Len(origin) = Len(texts)
    /\ \A j \in 1..Len(texts) : j <= Len(metadatas) /\ metadatas[j] = sdocs[origin[j]].metadata
    /\ \A i, j \in 1..Len(texts) :
           (origin[i] = origin[j] /\ i <= Len(metadatas) /\ j <= Len(metadatas))
               => metadatas[i] = metadatas[j]
    /\ \A i, j \in 1..Len(texts) : i <= j => origin[i] <= origin[j]
    /\ \A j \in 1..Len(texts) :
           texts[j] = split_text(sdocs[origin[j]].text)[j - ChunksBefore(origin[j])]
    /\ spc = "returned" =>
           \A d \in 1..Len(sdocs) :
               Cardinality({j \in 1..Len(origin) : origin[j] = d}) = Len(split_text(sdocs[d].text))

C10_Witness ==
    /\ spc = "returned"
    /\ Len(sdocs) = 2
    /\ Len(split_text(sdocs[1].text)) = 3
    /\ Len(split_text(sdocs[2].text)) = 2
    /\ sdocs[1].metadata # sdocs[2].metadata
    /\ Len(texts) = 5

(***************************************************************************)
(* C5 (as stated): the answer returned for a question carries a sources    *)
(* field that is the ordered, de-duplicated list of the source metadata of *)
(* the retrieved chunks supplied in the prompt.                            *)
(***************************************************************************)
RECURSIVE Dedup(_)
Dedup(xs) ==
    IF xs = <<>> THEN <<>>
    ELSE LET init == Dedup(SubSeq(xs, 1, Len(xs) - 1))
             last == xs[Len(xs)]
         IN IF Count(init, last) > 0 THEN init ELSE Append(init, last)

RetrievedSources == [j \in 1..Len(sources) |-> sources[j].metadata.source]

C6_AtomicPersist ==
    qpc \in {"loaded", "searched", "done"} =>
        /\ Len(qindex.vectors.entries) = Len(qindex.store.entries)
        /\ \A j \in 1..Len(qindex.vectors.entries) :
               qindex.store.entries[j].page_content = qindex.vectors.entries[j]

(***************************************************************************)
(* C7: a build whose embedding fails ends in an error with the files of    *)
(* the index as they were before it; a query whose embedding or completion *)
(* fails ends in an error and returns no answer.                           *)
(***************************************************************************)
C7_NoPartialIndexNoPartialAnswer ==
    /\ bfail = "embedding" => (bpc = "failed" /\ <<faissFile, pklFile>> = diskBefore)
    /\ bpc = "failed" => <<faissFile, pklFile>> = diskBefore
    /\ qfail \in {"embedding", "completion"} => (qpc = "error" /\ answer = NoAnswer)
    /\ answer # NoAnswer => (qpc = "done" /\ qfail = "none")

C7_Witness ==
    /\ bpc = "failed"
    /\ bgen = 2
    /\ faissFile.present /\ pklFile.present /\ faissFile.gen = 1 /\ pklFile.gen = 1
    /\ qfail = "completion"

(***************************************************************************)
(* C8: a query on an empty index (the search finds no chunk) or on an      *)
(* absent or unreachable index ends in an error; the completion service is *)
(* never called with zero retrieved chunks and no answer is returned.      *)
(***************************************************************************)
C8_EmptyOrAbsentIndexFails ==
    /\ (qpc \notin {"start", "off"} /\ qindex = NoIndex) =>
           (qpc = "error" /\ answer = NoAnswer /\ llmCalls = <<>>)
    /\ (qpc \notin {"start", "loaded", "off"} /\ sas = <<>>) =>
           (qpc = "error" /\ answer = NoAnswer /\ llmCalls = <<>>)
    /\ \A c \in 1..Len(llmCalls) : Len(llmCalls[c].input_documents) >= 1
    /\ answer # NoAnswer => (sas # <<>> /\ qindex # NoIndex)

C8_Witness ==
    /\ qpc = "error"
    /\ qfail = "empty"
    /\ qindex # NoIndex
    /\ qindex.vectors.entries = <<>>
    /\ llmCalls = <<>>
    /\ answer = NoAnswer

(***************************************************************************)
(* C11: for a non-empty chapter list the builder yields one document per   *)
(* chapter, in chapter order; document i's text is the texts of the        *)
(* segments with chapters[i].time <= start < chapters[i+1].time (the last  *)
(* window unbounded above), in segment order, joined by a single space and *)
(* stripped; its source is the video URL followed by "&t={time}s" and its  *)
(* full title is "{title} - {chapter-title}"; a chapter without segments   *)
(* still yields a document, with empty text.                               *)
(***************************************************************************)
InClaimedWindow(seg, ii) ==
    /\ chapters[ii].time <= seg.start
    /\ ii < Len(chapters) => seg.start < chapters[ii + 1].time

RECURSIVE ClaimedTexts(_, _)
ClaimedTexts(k, ii) ==
    IF k > Len(subtitles) THEN <<>>
    ELSE (IF InClaimedWindow(subtitles[k], ii) THEN <<subtitles[k].text>> ELSE <<>>)
         \o ClaimedTexts(k + 1, ii)

C11_DocumentPerChapter ==
    (epc = "returned" /\ Len(chapters) >= 1) =>
        /\ Len(documents) = Len(chapters)
        /\ \A ii \in 1..Len(chapters) :
            /\ ii <= Len(documents)
            /\ documents[ii].text = Strip(JoinSpace(ClaimedTexts(1, ii)))
            /\ documents[ii].metadata.source =
                   <<"https://www.youtube.com/watch?v=", video_info.id,
                     "&t=", chapters[ii].time, "s">>
            /\ documents[ii].metadata.full_title =
                   <<video_info.title, " - ", chapters[ii].title>>

\* the same statement for transcripts that end before the 1e10 s sentinel
C11_HoldsBelowSentinel ==
    (\A k \in 1..Len(transcript) : transcript[k].start < LastChapterEnd)
        => C11_DocumentPerChapter

(***************************************************************************)
(* C12: the delay before retry number attempt (0, 1, 2) of a failed item   *)
(* is initial_delay * backoff_coefficient^attempt: with initial_delay = 5  *)
(* and backoff_coefficient = 2 the delays are 5, 10 and 20 seconds,        *)
(* strictly increasing, and no retry starts before its delay has elapsed   *)
(* since the failure.                                                      *)
(***************************************************************************)
C12_ExponentialBackoff ==
    /\ Len(rdelays) <= 3
    /\ rdelays = SubSeq(<<5, 10, 20>>, 1, Len(rdelays))
    /\ \A k \in 1..(Len(rdelays) - 1) : rdelays[k] < rdelays[k + 1]
    /\ (rpc \in {"running", "returned", "dropped"} /\ rattempts >= 2) =>
           /\ Len(rdelays) = rattempts - 1
           /\ rpc = "running" => rstartedAt >= rfailedAt + rdelays[Len(rdelays)]
           /\ rstartedAt >= 5 * (Pow(2, rattempts - 1) - 1)

C12_Witness ==
    /\ rpc = "dropped"
    /\ rattempts = 4
    /\ rdelays = <<5, 10, 20>>
    /\ rstartedAt = 35

(***************************************************************************)
(* C13: chunk_into(list, n) yields exactly n pieces, piece i holding the   *)
(* elements at indices i, i+n, i+2n, ... in that order (empty when the     *)
(* list has no more than i elements), so that every element is in exactly  *)
(* one piece; hence in main, when the 10 parallel add_to_document_db calls *)
(* have all finished, every flattened document was sent to the document    *)
(* store exactly once, whatever the order of the calls.                    *)
(***************************************************************************)
PlacesOf(d) ==
    UNION {{<<p, k>> : k \in {j \in 1..Len(pieces[p]) : pieces[p][j] = d}} :
              p \in 1..Len(pieces)}

C13_ChunkIntoPartition ==
    /\ cpc \in {"writing", "finished", "raised"} =>
        /\ Len(pieces) = 10
        /\ \A p \in 1..Len(pieces) :
            /\ \A k \in 1..Len(pieces[p]) :
                   /\ (p - 1) + (k - 1) * 10 + 1 <= Len(flatDocs)
                   /\ pieces[p][k] = flatDocs[(p - 1) + (k - 1) * 10 + 1]
            /\ (p - 1) + Len(pieces[p]) * 10 + 1 > Len(flatDocs)
            /\ Len(flatDocs) < p => pieces[p] = <<>>
        /\ \A d \in 1..Len(flatDocs) : Cardinality(PlacesOf(flatDocs[d])) = 1
        /\ \A d \in 1..Len(flatDocs) : submitted[d] <= 1
    /\ cpc = "finished" => \A d \in 1..Len(flatDocs) : submitted[d] = 1

C13_Witness ==
    /\ cpc = "finished"
    /\ Len(flatDocs) = 10 - 1
    /\ pieces[10] = <<>>
    /\ pieces[1] = <<flatDocs[1]>>
    /\ \A d \in 1..Len(flatDocs) : submitted[d] = 1

C13_WitnessLong ==
    /\ cpc = "finished"
    /\ Len(flatDocs) > 2 * 10
    /\ pieces[1] = <<flatDocs[1], flatDocs[11], flatDocs[21]>>

====
